---- MODULE Spec2Model ----
(***************************************************************************)
(* Model of the zero-report ETL jobs                                       *)
(*   src/jobs/ts-yev-zero-report-validate/zero_report_parse.py   (v1.1)    *)
(*   src/zero_report_parse.py                                    (v0.3)    *)
(*                                                                         *)
(* Text is modelled as a sequence of Unicode code points (naturals), so    *)
(* that reversal, trimming and the regular expressions of the source are   *)
(* computed character by character, as Python computes them.               *)
(***************************************************************************)
EXTENDS Integers, Sequences, FiniteSets, TLC

VARIABLES
    \* Text Normalizer applied twice
    n_fn, n_in, n_once, n_twice, n_pc,
    \* extract_structured_data: the document, the loop position
    \* (page, line, key, label), the result map and the seen set
    pdf_pages, page_num, line_no, key_i, label_i, extracted, seen_keys, e_pc,
    \* enrichment: the context paragraph, the fallback's result, the reply
    \* of the Titan call and the result of get_llm_additions_titan
    t_context, t_fallback, t_reply, t_out, t_pc,
    \* the two jobs: the arguments, the source object in S3, the clock,
    \* each job's position and locals, and the objects written
    source_key, enable_bedrock, s3_object, uploads, clock, job, artifacts

normVars == <<n_fn, n_in, n_once, n_twice, n_pc>>

extractVars ==
    <<pdf_pages, page_num, line_no, key_i, label_i, extracted, seen_keys, e_pc>>

enrichVars == <<t_context, t_fallback, t_reply, t_out, t_pc>>

mainVars ==
    <<source_key, enable_bedrock, s3_object, uploads, clock, job, artifacts>>

vars == <<normVars, extractVars, enrichVars, mainVars>>

(***************************************************************************)
(* Generic string helpers (Python str semantics on code-point sequences).  *)
(***************************************************************************)

\* Characters str.strip() and the regex class \s treat as white space
\* (the ones that can occur in the modelled texts).
WhiteSpace == {9, 10, 11, 12, 13, 28, 29, 30, 31, 32, 133, 160}

IsSpace(c) == c \in WhiteSpace

\* s[::-1]
RECURSIVE Reverse(_)
Reverse(s) == IF s = <<>> THEN <<>> ELSE Append(Reverse(Tail(s)), Head(s))

\* s[i:j] with 1-based inclusive bounds, empty when i > j
Slice(s, i, j) == IF i > j THEN <<>> ELSE SubSeq(s, i, j)

\* number of leading characters of s (from position p on) that are in set cs
RECURSIVE RunLen(_, _, _)
RunLen(s, p, cs) ==
    IF p > Len(s) \/ s[p] \notin cs THEN 0 ELSE 1 + RunLen(s, p + 1, cs)

\* number of trailing characters of s[1..e] that are in set cs
RECURSIVE RunLenBack(_, _, _)
RunLenBack(s, e, cs) ==
    IF e < 1 \/ s[e] \notin cs THEN 0 ELSE 1 + RunLenBack(s, e - 1, cs)

\* str.strip(chars): remove leading and trailing characters of cs
StripChars(s, cs) ==
    LET a == RunLen(s, 1, cs)
        b == RunLenBack(s, Len(s), cs)
    IN  IF a = Len(s) THEN <<>> ELSE Slice(s, a + 1, Len(s) - b)

\* str.strip()
Strip(s) == StripChars(s, WhiteSpace)

\* str.lstrip(chars)
LStripChars(s, cs) == Slice(s, RunLen(s, 1, cs) + 1, Len(s))

\* the literal w stands in s at position p
HasAt(s, p, w) ==
    /\ p >= 1
    /\ p + Len(w) - 1 <= Len(s)
    /\ \A k \in 1..Len(w) : s[p + k - 1] = w[k]

\* w in s
Contains(s, w) == \E p \in 1..(Len(s) + 1) : HasAt(s, p, w)

\* remove every character of cs (re.sub(r"[...]", "", s))
RECURSIVE RemoveChars(_, _)
RemoveChars(s, cs) ==
    IF s = <<>> THEN <<>>
    ELSE IF Head(s) \in cs THEN RemoveChars(Tail(s), cs)
         ELSE <<Head(s)>> \o RemoveChars(Tail(s), cs)

\* sep.join(parts)
RECURSIVE Join(_, _)
Join(parts, sep) ==
    IF parts = <<>> THEN <<>>
    ELSE IF Len(parts) = 1 THEN parts[1]
    ELSE parts[1] \o sep \o Join(Tail(parts), sep)

(***************************************************************************)
(* unicodedata.normalize("NFKC", .) on the characters the model uses.      *)
(* Unicode data of these characters:                                       *)
(*   U+00A0 NO-BREAK SPACE      compatibility decomposition <U+0020>       *)
(*   U+00E9 e-acute             canonical decomposition <U+0065, U+0301>   *)
(*   U+0301 COMBINING ACUTE     combining class 230                        *)
(*   U+05BC HEBREW DAGESH       combining class 21                         *)
(*   U+05B7 HEBREW PATAH        combining class 17                         *)
(*   U+05B0 HEBREW SHEVA        combining class 10                         *)
(* every other character used is a starter that is its own NFKC form.      *)
(***************************************************************************)
Decomposition(c) ==
    CASE c = 160 -> <<32>>
      [] c = 233 -> <<101, 769>>
      [] OTHER   -> <<c>>

CombiningClass(c) ==
    CASE c = 769  -> 230
      [] c = 1468 -> 21
      [] c = 1463 -> 17
      [] c = 1456 -> 10
      [] OTHER    -> 0

\* primary composite of a starter and a following mark, 0 when there is none
PrimaryComposite(a, b) == IF a = 101 /\ b = 769 THEN 233 ELSE 0

RECURSIVE Decompose(_)
Decompose(s) ==
    IF s = <<>> THEN <<>> ELSE Decomposition(Head(s)) \o Decompose(Tail(s))

\* canonical ordering: a mark moves left over marks of a higher class
RECURSIVE InsertOrdered(_, _)
InsertOrdered(acc, c) ==
    IF /\ acc # <<>>
       /\ CombiningClass(c) # 0
       /\ CombiningClass(acc[Len(acc)]) > CombiningClass(c)
    THEN Append(InsertOrdered(SubSeq(acc, 1, Len(acc) - 1), c), acc[Len(acc)])
    ELSE Append(acc, c)

RECURSIVE CanonicalOrder(_, _)
CanonicalOrder(s, acc) ==
    IF s = <<>> THEN acc
    ELSE CanonicalOrder(Tail(s), InsertOrdered(acc, Head(s)))

\* canonical composition: st is the position in acc of the last starter
\* (0: none), last the combining class of the last character appended
RECURSIVE ComposeFrom(_, _, _, _)
ComposeFrom(s, acc, st, last) ==
    IF s = <<>> THEN acc
    ELSE LET c  == Head(s)
             cc == CombiningClass(c)
             pc == IF st = 0 THEN 0 ELSE PrimaryComposite(acc[st], c)
         IN  IF st # 0 /\ pc # 0 /\ (last < cc \/ last = 0)
             THEN ComposeFrom(Tail(s), [acc EXCEPT ![st] = pc], st, last)
             ELSE ComposeFrom(Tail(s), Append(acc, c),
                              IF cc = 0 THEN Len(acc) + 1 ELSE st, cc)

NFKC(s) == ComposeFrom(CanonicalOrder(Decompose(s), <<>>), <<>>, 0, 256)

\* LEFT-TO-RIGHT MARK U+200E and RIGHT-TO-LEFT MARK U+200F
BidiMarks == {8206, 8207}

\* extract_structured_data.clean_text
clean_text(text) == Strip(RemoveChars(NFKC(text), BidiMarks))

\* extract_target_paragraph.normalize
normalize(line) == Strip(RemoveChars(NFKC(line), BidiMarks))

IdleNormalize ==
    /\ n_fn = "clean_text"
    /\ n_in = <<>>
    /\ n_once = <<>>
    /\ n_twice = <<>>
    /\ n_pc = "idle"


(***************************************************************************)
(* STRUCTURED FIELD EXTRACTION: extract_structured_data.                   *)
(***************************************************************************)

\* field_patterns, in dict order; labels as code points:
\*   block            "גוש"
\*   plot             "חלקה"
\*   registered_area  "שטח רשום", "רשום שטח"
\*   address          "כתובת"
field_patterns ==
    << [key |-> "block",  labels |-> << <<1490, 1493, 1513>> >>],
       [key |-> "plot",   labels |-> << <<1495, 1500, 1511, 1492>> >>],
       [key |-> "registered_area",
        labels |-> << <<1513, 1496, 1495, 32, 1512, 1513, 1493, 1501>>,
                      <<1512, 1513, 1493, 1501, 32, 1513, 1496, 1495>> >>],
       [key |-> "address", labels |-> << <<1499, 1514, 1493, 1489, 1514>> >>] >>

\* max_pages: int = 4
max_pages == 4

flip_line(line) == Reverse(line)

\* raw_text.split("\n")
RECURSIVE SplitLines(_, _)
SplitLines(text, cur) ==
    IF text = <<>> THEN <<cur>>
    ELSE IF Head(text) = 10 THEN <<cur>> \o SplitLines(Tail(text), <<>>)
    ELSE SplitLines(Tail(text), Append(cur, Head(text)))

NoMatch == [ok |-> FALSE, g |-> <<>>]

Matched(group) == [ok |-> TRUE, g |-> group]

SetMin(S) == CHOOSE x \in S : \A y \in S : x <= y

SetMax(S) == CHOOSE x \in S : \A y \in S : x >= y

\* the characters of [:\-]
Separators == {58, 45}

\* group 1 of  \s*[:\-]?\s*(.+)  anchored at the start of r, Len(r) >= 1:
\* the three optional parts take all they can; when that leaves nothing
\* for (.+), backtracking gives the last character of r to the group.
CaptureAfter(r) ==
    LET w1 == RunLen(r, 1, WhiteSpace)
        sp == IF w1 + 1 <= Len(r) /\ r[w1 + 1] \in Separators THEN 1 ELSE 0
        w2 == RunLen(r, w1 + sp + 1, WhiteSpace)
        st == w1 + sp + w2
    IN  IF st < Len(r) THEN Slice(r, st + 1, Len(r)) ELSE <<r[Len(r)]>>

\* re.search(rf"{label}\s*[:\-]?\s*(.+)", s): the leftmost start at which the
\* label stands and at least one character follows it
search_fwd(label, s) ==
    LET starts == {p \in 1..Len(s) :
                     HasAt(s, p, label) /\ p + Len(label) <= Len(s)}
    IN  IF starts = {} THEN NoMatch
        ELSE LET p == SetMin(starts)
             IN  Matched(CaptureAfter(Slice(s, p + Len(label), Len(s))))

\* re.search(rf"(.+)\s*[:\-]?\s*{label}", s): the greedy (.+) starts at the
\* first character and runs up to the last place where the label stands
search_rev(label, s) ==
    LET starts == {p \in 2..Len(s) : HasAt(s, p, label)}
    IN  IF starts = {} THEN NoMatch
        ELSE Matched(Slice(s, 1, SetMax(starts) - 1))

re_search(pat, label, s) ==
    IF pat = "fwd_pat" THEN search_fwd(label, s) ELSE search_rev(label, s)

\* match.group(1).strip().strip(".")
CleanValue(group) == StripChars(Strip(group), {46})

\* the body of "for pat in (fwd_pat, rev_pat)" for one pattern:
\*   match = re.search(pat, line) or re.search(pat, flipped)
\*   val = match.group(1).strip().strip(".")
\*   if re.search(pat, flipped): val = val[::-1]
TryPattern(pat, label, line, flipped) ==
    LET onLine    == re_search(pat, label, line)
        onFlipped == re_search(pat, label, flipped)
        match     == IF onLine.ok THEN onLine ELSE onFlipped
        val       == CleanValue(match.g)
    IN  [ok  |-> match.ok,
         val |-> IF onFlipped.ok THEN Reverse(val) ELSE val]

\* the whole "for pat" loop for one label: the first pattern that matches
\* sets the value and breaks
TryLabel(label, line, flipped) ==
    LET f == TryPattern("fwd_pat", label, line, flipped)
    IN  IF f.ok THEN f ELSE TryPattern("rev_pat", label, line, flipped)

\* pages scanned: range(min(len(pdf.pages), max_pages))
PagesToScan(pages) == IF Len(pages) < max_pages THEN Len(pages) ELSE max_pages

PageLines(pages, p) == SplitLines(pages[p], <<>>)

CurKey == field_patterns[key_i].key

CurLabels == field_patterns[key_i].labels

CurRawLine == PageLines(pdf_pages, page_num)[line_no]

IdleExtract ==
    /\ pdf_pages = <<>>
    /\ page_num = 0
    /\ line_no = 0
    /\ key_i = 0
    /\ label_i = 0
    /\ extracted = <<>>
    /\ seen_keys = {}
    /\ e_pc = "idle"

\* the loop position after the current label / key
AdvanceFrom(lastLabelOfKey) ==
    IF ~lastLabelOfKey
    THEN /\ label_i' = label_i + 1
         /\ UNCHANGED <<page_num, line_no, key_i, e_pc>>
    ELSE IF key_i < Len(field_patterns)
    THEN /\ key_i' = key_i + 1
         /\ label_i' = 1
         /\ UNCHANGED <<page_num, line_no, e_pc>>
    ELSE IF line_no < Len(PageLines(pdf_pages, page_num))
    THEN /\ line_no' = line_no + 1
         /\ key_i' = 1
         /\ label_i' = 1
         /\ UNCHANGED <<page_num, e_pc>>
    ELSE IF page_num < PagesToScan(pdf_pages)
    THEN /\ page_num' = page_num + 1
         /\ line_no' = 1
         /\ key_i' = 1
         /\ label_i' = 1
         /\ UNCHANGED e_pc
    ELSE /\ e_pc' = "done"
         /\ UNCHANGED <<page_num, line_no, key_i, label_i>>

\* "if key in seen_keys: continue"
SkipSeenKey ==
    /\ e_pc = "scan"
    /\ label_i = 1
    /\ CurKey \in seen_keys
    /\ AdvanceFrom(TRUE)
    /\ UNCHANGED <<pdf_pages, extracted, seen_keys>>
    /\ UNCHANGED <<normVars, enrichVars, mainVars>>

\* one pass of "for label in labels" on the current line
ScanLabel ==
    /\ e_pc = "scan"
    /\ label_i > 1 \/ CurKey \notin seen_keys
    /\ LET line    == clean_text(CurRawLine)
           flipped == flip_line(clean_text(CurRawLine))
           m       == TryLabel(CurLabels[label_i], line, flipped)
       IN  IF m.ok
           THEN /\ extracted' = [k \in DOMAIN extracted \cup {CurKey} |->
                                   IF k = CurKey THEN m.val ELSE extracted[k]]
                /\ seen_keys' = seen_keys \cup {CurKey}
           ELSE UNCHANGED <<extracted, seen_keys>>
    /\ AdvanceFrom(label_i = Len(CurLabels))
    /\ UNCHANGED pdf_pages
    /\ UNCHANGED <<normVars, enrichVars, mainVars>>

(***************************************************************************)
(* LLM CONTEXT + TITAN CALL: _hebrew_word_to_int, _extract_numbers_fallback*)
(* and get_llm_additions_titan.                                            *)
(***************************************************************************)

\* the dict m of _hebrew_word_to_int, as <<word, value>> pairs:
\*   אחת אחד 1, שתיים שתי שניים שני 2, שלוש שלושה 3, ארבע ארבעה 4,
\*   חמש חמישה 5, שש שישה 6, שבע שבעה 7, שמונה (and with a sheva) 8,
\*   תשע תשעה 9, עשר עשרה 10, אחת עשרה / אחד עשר 11,
\*   שתים עשרה / שנים עשר 12
HebrewNumberWords ==
  { <<<<1488, 1495, 1514>>, 1>>,
    <<<<1488, 1495, 1491>>, 1>>,
    <<<<1513, 1514, 1497, 1497, 1501>>, 2>>,
    <<<<1513, 1514, 1497>>, 2>>,
    <<<<1513, 1504, 1497, 1497, 1501>>, 2>>,
    <<<<1513, 1504, 1497>>, 2>>,
    <<<<1513, 1500, 1493, 1513>>, 3>>,
    <<<<1513, 1500, 1493, 1513, 1492>>, 3>>,
    <<<<1488, 1512, 1489, 1506>>, 4>>,
    <<<<1488, 1512, 1489, 1506, 1492>>, 4>>,
    <<<<1495, 1502, 1513>>, 5>>,
    <<<<1495, 1502, 1497, 1513, 1492>>, 5>>,
    <<<<1513, 1513>>, 6>>,
    <<<<1513, 1497, 1513, 1492>>, 6>>,
    <<<<1513, 1489, 1506>>, 7>>,
    <<<<1513, 1489, 1506, 1492>>, 7>>,
    <<<<1513, 1502, 1493, 1504, 1492>>, 8>>,
    <<<<1513, 1502, 1493, 1504, 1492, 1456>>, 8>>,
    <<<<1514, 1513, 1506>>, 9>>,
    <<<<1514, 1513, 1506, 1492>>, 9>>,
    <<<<1506, 1513, 1512>>, 10>>,
    <<<<1506, 1513, 1512, 1492>>, 10>>,
    <<<<1488, 1495, 1514, 32, 1506, 1513, 1512, 1492>>, 11>>,
    <<<<1488, 1495, 1491, 32, 1506, 1513, 1512>>, 11>>,
    <<<<1513, 1514, 1497, 1501, 32, 1506, 1513, 1512, 1492>>, 12>>,
    <<<<1513, 1504, 1497, 1501, 32, 1506, 1513, 1512>>, 12>> }

\* m.get(word.strip(), 0)
hebrew_word_to_int(word) ==
    LET hits == {e \in HebrewNumberWords : e[1] = Strip(word)}
    IN  IF hits = {} THEN 0 ELSE (CHOOSE e \in hits : TRUE)[2]

\* \d (the ASCII digits)
Digits == 48..57

\* [א-ת ]
HebrewLetterOrSpace == (1488..1514) \cup {32}

\* int(digits)
RECURSIVE DecimalValue(_)
DecimalValue(ds) ==
    IF ds = <<>> THEN 0
    ELSE 10 * DecimalValue(SubSeq(ds, 1, Len(ds) - 1)) + (ds[Len(ds)] - 48)

\* "תוספת", "הוספת"
Tosefet == <<1514, 1493, 1505, 1508, 1514>>

Hosafat == <<1492, 1493, 1505, 1508, 1514>>

\* "קומה", "קומות", and "קומו" (what קומות? needs at least)
Koma == <<1511, 1493, 1502, 1492>>

Komot == <<1511, 1493, 1502, 1493, 1514>>

Komo == <<1511, 1493, 1502, 1493>>

\* (?:תוספת|הוספת)? at p: the positions where the rest of the pattern may
\* go on, in the order the matcher tries them (with the word, then without)
AfterOptionalPrefix(s, p) ==
    IF HasAt(s, p, Tosefet) THEN <<p + Len(Tosefet), p>>
    ELSE IF HasAt(s, p, Hosafat) THEN <<p + Len(Hosafat), p>>
    ELSE <<p>>

\* the first successful result in a sequence of results
RECURSIVE FirstOkFrom(_, _)
FirstOkFrom(results, i) ==
    IF i > Len(results) THEN NoMatch
    ELSE IF results[i].ok THEN results[i]
    ELSE FirstOkFrom(results, i + 1)

FirstOk(results) == FirstOkFrom(results, 1)

\* \s*(\d+)\s*(?:קומות?|קומה) anchored at q
NumericFloorsFrom(s, q) ==
    LET w1 == RunLen(s, q, WhiteSpace)
        d  == RunLen(s, q + w1, Digits)
        w2 == RunLen(s, q + w1 + d, WhiteSpace)
        r  == q + w1 + d + w2
    IN  IF d >= 1 /\ (HasAt(s, r, Komo) \/ HasAt(s, r, Koma))
        THEN Matched(Slice(s, q + w1, q + w1 + d - 1))
        ELSE NoMatch

\* the lazy group [א-ת ]+? begun at g and now ending at e: the first end
\* after which the floor word follows (across white space), 0 when the
\* characters of the class run out first
RECURSIVE LazyGroupEnd(_, _)
LazyGroupEnd(s, e) ==
    IF e > Len(s) \/ s[e] \notin HebrewLetterOrSpace THEN 0
    ELSE LET r == e + 1 + RunLen(s, e + 1, WhiteSpace)
         IN  IF HasAt(s, r, Koma) \/ HasAt(s, r, Komot) THEN e
             ELSE LazyGroupEnd(s, e + 1)

\* \s*([א-ת ]+?)\s*(?:קומה|קומות) anchored at q: the first \s* is greedy
\* and gives characters back one at a time (k of them kept); the lazy
\* group then stops at the first place where the floor word follows
WordFloorsFrom(s, q) ==
    LET ks == {k \in 0..RunLen(s, q, WhiteSpace) : LazyGroupEnd(s, q + k) # 0}
    IN  IF ks = {} THEN NoMatch
        ELSE LET g == q + SetMax(ks)
             IN  Matched(Slice(s, g, LazyGroupEnd(s, g)))

\* re.search(r"(?:תוספת|הוספת)?\s*(\d+)\s*(?:קומות?|קומה)", text)
search_floors_numeric(text) ==
    LET At(p) == LET qs == AfterOptionalPrefix(text, p)
                 IN  FirstOk([i \in 1..Len(qs) |-> NumericFloorsFrom(text, qs[i])])
    IN  FirstOk([p \in 1..(Len(text) + 1) |-> At(p)])

\* re.search(r"(?:תוספת|הוספת)?\s*([א-ת ]+?)\s*(?:קומה|קומות)", text)
search_floors_word(text) ==
    LET At(p) == LET qs == AfterOptionalPrefix(text, p)
                 IN  FirstOk([i \in 1..Len(qs) |-> WordFloorsFrom(text, qs[i])])
    IN  FirstOk([p \in 1..(Len(text) + 1) |-> At(p)])

\* re.search(r"(\d+)\s*(?:יח\"?ד|יחידות\s*דיור)", text)
search_units(text) ==
    LET At(p) ==
            LET d == RunLen(text, p, Digits)
                r == p + d + RunLen(text, p + d, WhiteSpace)
                yachad == /\ HasAt(text, r, <<1497, 1495>>)
                          /\ \/ HasAt(text, r + 2, <<34, 1491>>)
                             \/ HasAt(text, r + 2, <<1491>>)
                yechidot == /\ HasAt(text, r, <<1497, 1495, 1497, 1491, 1493, 1514>>)
                            /\ HasAt(text, r + 6 + RunLen(text, r + 6, WhiteSpace),
                                     <<1491, 1497, 1493, 1512>>)
            IN  IF d >= 1 /\ (yachad \/ yechidot)
                THEN Matched(Slice(text, p, p + d - 1)) ELSE NoMatch
    IN  FirstOk([p \in 1..(Len(text) + 1) |-> At(p)])

\* _extract_numbers_fallback
extract_numbers_fallback(text) ==
    LET mNum   == search_floors_numeric(text)
        floors == IF mNum.ok THEN DecimalValue(mNum.g) ELSE 0
        mWord  == search_floors_word(text)
        floors2 == IF floors = 0 /\ mWord.ok THEN hebrew_word_to_int(mWord.g)
                   ELSE floors
        mUnits == search_units(text)
    IN  [new_floors_count      |-> floors2,
         new_residential_units |-> IF mUnits.ok THEN DecimalValue(mUnits.g) ELSE 0]

(***************************************************************************)
(* JSON values of the enrichment reply.  A value is [t, n, s]: its type,   *)
(* a number (an int; a float in tenths; a bool as 0/1; a list's length)    *)
(* and a string.  "missing" stands for a key the object does not hold.     *)
(***************************************************************************)
JMissing == [t |-> "missing", n |-> 0, s |-> <<>>]

JNull == [t |-> "null", n |-> 0, s |-> <<>>]

JInt(k) == [t |-> "int", n |-> k, s |-> <<>>]

JFloatTenths(k) == [t |-> "float", n |-> k, s |-> <<>>]

JStr(str) == [t |-> "str", n |-> 0, s |-> str]

JList(len) == [t |-> "list", n |-> len, s |-> <<>>]

\* Python truth value of obj.get(key, 0) / obj.get(key)
Truthy(v) ==
    CASE v.t = "missing" -> FALSE
      [] v.t = "null"    -> FALSE
      [] v.t = "str"     -> v.s # <<>>
      [] OTHER           -> v.n # 0

Raised == [ok |-> FALSE, n |-> 0]

\* int(obj.get(key, 0) or 0): ok is FALSE when int() raises
\* (ValueError on text that is no number, TypeError on a list)
IntOrZero(v) ==
    IF ~Truthy(v) THEN [ok |-> TRUE, n |-> 0]
    ELSE CASE v.t = "int"   -> [ok |-> TRUE, n |-> v.n]
           [] v.t = "bool"  -> [ok |-> TRUE, n |-> 1]
           [] v.t = "float" -> [ok |-> TRUE, n |-> v.n \div 10]
           [] v.t = "str"   ->
                LET txt == Strip(v.s)
                IN  IF txt # <<>> /\ RunLen(txt, 1, Digits) = Len(txt)
                    THEN [ok |-> TRUE, n |-> DecimalValue(txt)]
                    ELSE Raised
           [] OTHER         -> Raised

\* (obj.get("summary_he") or "").strip(): ok is FALSE when .strip raises
\* AttributeError (a truthy value that is no string)
SummaryOf(v) ==
    IF ~Truthy(v) THEN [ok |-> TRUE, s |-> <<>>]
    ELSE IF v.t = "str" THEN [ok |-> TRUE, s |-> Strip(v.s)]
    ELSE [ok |-> FALSE, s |-> <<>>]

\* obj.get("additions_list_he") or []
AdditionsOf(v) == IF Truthy(v) THEN v ELSE JList(0)

EmptyObject ==
    [new_floors_count |-> JMissing, new_residential_units |-> JMissing,
     additions_list_he |-> JMissing, summary_he |-> JMissing]

\* the return value {} of get_llm_additions_titan
NoAdditions ==
    [returned |-> "empty",
     llm_project_additions_he |-> <<>>,
     llm_additions |-> [new_floors_count |-> 0, new_residential_units |-> 0,
                        additions_list_he |-> JList(0), summary_he |-> <<>>]]

\* What ask_bedrock_titan and the two parsing attempts make of the reply:
\*   "raise"      the call raises (service unavailable, bad payload)
\*   "json"       outputText is JSON; value is "object" or something else
\*   "wrapped"    json.loads(raw) fails, the {.*} block parses to an object
\*   "prose"      json.loads(raw) fails and the text holds no {.*} block
\*   "broken"     json.loads(raw) fails and so does json.loads of the block
ParseReply(reply) ==
    CASE reply.shape = "raise"   -> [ok |-> FALSE, obj |-> EmptyObject]
      [] reply.shape = "broken"  -> [ok |-> FALSE, obj |-> EmptyObject]
      [] reply.shape = "prose"   -> [ok |-> TRUE, obj |-> EmptyObject]
      [] reply.shape = "json" /\ reply.value # "object"
                                 -> [ok |-> TRUE, obj |-> EmptyObject]
      [] OTHER                   -> [ok |-> TRUE, obj |-> reply.obj]

\* get_llm_additions_titan(context), with the outcome of the Titan call
get_llm_additions_titan(context, reply) ==
    IF context = <<>> \/ Strip(context) = <<>> THEN NoAdditions
    ELSE
    LET parsed  == ParseReply(reply)
        obj     == parsed.obj
        floors  == IntOrZero(obj.new_floors_count)
        units   == IntOrZero(obj.new_residential_units)
        summary == SummaryOf(obj.summary_he)
        fallback == extract_numbers_fallback(context)
        useFallback == floors.n = 0 \/ units.n = 0
    IN  IF ~parsed.ok \/ ~floors.ok \/ ~units.ok \/ ~summary.ok
        THEN NoAdditions
        ELSE [returned |-> "out",
              llm_project_additions_he |-> summary.s,
              llm_additions |->
                [new_floors_count |->
                    IF useFallback /\ floors.n = 0 /\ fallback.new_floors_count # 0
                    THEN fallback.new_floors_count ELSE floors.n,
                 new_residential_units |->
                    IF useFallback /\ units.n = 0 /\ fallback.new_residential_units # 0
                    THEN fallback.new_residential_units ELSE units.n,
                 additions_list_he |-> AdditionsOf(obj.additions_list_he),
                 summary_he |-> summary.s]]

(***************************************************************************)
(* The whole of extract_structured_data as a function of the pages: the    *)
(* loops of lines 86-106 folded over pages, lines, keys and labels.        *)
(***************************************************************************)

\* lines 98-104 for one label: the result map after the label was tried
RecordMatch(ex, key, label, raw_line) ==
    LET m == TryLabel(label, clean_text(raw_line), flip_line(clean_text(raw_line)))
    IN  IF m.ok
        THEN [k \in DOMAIN ex \cup {key} |-> IF k = key THEN m.val ELSE ex[k]]
        ELSE ex

RECURSIVE ScanLabels(_, _, _, _, _)
ScanLabels(ex, key, labels, j, raw_line) ==
    IF j > Len(labels) THEN ex
    ELSE ScanLabels(RecordMatch(ex, key, labels[j], raw_line),
                    key, labels, j + 1, raw_line)

RECURSIVE ScanKeys(_, _, _)
ScanKeys(ex, i, raw_line) ==
    IF i > Len(field_patterns) THEN ex
    ELSE IF field_patterns[i].key \in DOMAIN ex
    THEN ScanKeys(ex, i + 1, raw_line)
    ELSE ScanKeys(ScanLabels(ex, field_patterns[i].key,
                             field_patterns[i].labels, 1, raw_line),
                  i + 1, raw_line)

RECURSIVE ScanLines(_, _, _)
ScanLines(ex, lines, n) ==
    IF n > Len(lines) THEN ex
    ELSE ScanLines(ScanKeys(ex, 1, lines[n]), lines, n + 1)

RECURSIVE ScanPages(_, _, _)
ScanPages(ex, pages, p) ==
    IF p > PagesToScan(pages) THEN ex
    ELSE ScanPages(ScanLines(ex, PageLines(pages, p), 1), pages, p + 1)

extract_structured_data(pages) == ScanPages(<<>>, pages, 1)

(***************************************************************************)
(* PDF LOADER and TEXT ANALYSIS: the checks of load_pdf_bytes,             *)
(* generate_doc_id, extract_text_sample, has_hebrew.                       *)
(***************************************************************************)

\* str.lower() on the letters A-Z
RECURSIVE Lower(_)
Lower(str) ==
    IF str = <<>> THEN <<>>
    ELSE <<IF Head(str) \in 65..90 THEN Head(str) + 32 ELSE Head(str)>>
            \o Lower(Tail(str))

\* str.endswith
EndsWith(str, suffix) == HasAt(str, Len(str) - Len(suffix) + 1, suffix)

\* ".pdf"
DotPdf == <<46, 112, 100, 102>>

\* key.lower().endswith(".pdf")
KeyIsPdf(key) == EndsWith(Lower(key), DotPdf)

\* a loader without the size check
SizeNotChecked(size) == TRUE

\* not (head.get("ContentLength", 0) < 1024)
SizeIsPlausible(size) == ~(size < 1024)

\* head["ETag"].strip('"')
StripQuotes(etag) == StripChars(etag, {34})

\* str.encode(): UTF-8 bytes of a string of code points below 65536
RECURSIVE Utf8(_)
Utf8(str) ==
    IF str = <<>> THEN <<>>
    ELSE LET c == Head(str)
             bytes == IF c < 128 THEN <<c>>
                      ELSE IF c < 2048
                      THEN <<192 + (c \div 64), 128 + (c % 64)>>
                      ELSE <<224 + (c \div 4096), 128 + ((c \div 64) % 64),
                             128 + (c % 64)>>
         IN  bytes \o Utf8(Tail(str))

\* A stand-in for SHA-256: a deterministic digest of the bytes, written as
\* 64 lowercase hexadecimal digits.  It mixes every byte into a 24-bit
\* state; the first six digits are that state, the rest is drawn from it.
MixByte(h, b) == (h * 31 + b + 1) % 16777213

RECURSIVE Absorb(_, _)
Absorb(bytes, h) ==
    IF bytes = <<>> THEN h ELSE Absorb(Tail(bytes), MixByte(h, Head(bytes)))

\* "0".."9", "a".."f"
HexDigit(k) == IF k < 10 THEN 48 + k ELSE 87 + k

RECURSIVE HexOf(_, _)
HexOf(h, n) ==
    IF n = 0 THEN <<>> ELSE Append(HexOf(h \div 16, n - 1), HexDigit(h % 16))

RECURSIVE Squeeze(_, _)
Squeeze(h, n) ==
    IF n = 0 THEN <<>>
    ELSE <<HexDigit(h % 16)>> \o Squeeze(MixByte(h, n), n - 1)

\* hashlib.sha256(bytes).hexdigest()
Sha256Hex(bytes) ==
    LET h == Absorb(bytes, 7) IN HexOf(h, 6) \o Squeeze(h, 58)

\* f"{bucket}/{key}/{etag}" of the job without the etag: a document id that
\* ignores the content fingerprint
RawIdWithoutEtag(bucket, key, etag) == bucket \o <<47>> \o key

\* f"{bucket}/{key}/{etag}"
RawId(bucket, key, etag) == bucket \o <<47>> \o key \o <<47>> \o etag

\* generate_doc_id (v1.1)
generate_doc_id(bucket, key, etag) ==
    SubSeq(Sha256Hex(Utf8(RawId(bucket, key, etag))), 1, 16)

\* doc_id of main (v0.3), computed in line
doc_id_v03(bucket, key, etag) ==
    SubSeq(Sha256Hex(Utf8(bucket \o <<47>> \o key \o <<47>> \o etag)), 1, 16)

\* HEBREW_RE = re.compile(r"[֐-׿]")
HEBREW_RE == 1424..1535

has_hebrew(text) == \E i \in 1..Len(text) : text[i] \in HEBREW_RE

\* pages sampled by extract_text_sample
SampleMaxPages == 10

\* extract_text_sample: "\n".join of the text of the first max_pages pages
extract_text_sample(pages) ==
    Join(SubSeq(pages, 1, IF Len(pages) < SampleMaxPages THEN Len(pages)
                          ELSE SampleMaxPages), <<10>>)

(***************************************************************************)
(* extract_target_paragraph: the block after the anchor on page index 2.   *)
(***************************************************************************)

\* "לתשומת לב הגוף המממן", the same with a colon, and its mirror
Anchors ==
    { <<1500, 1514, 1513, 1493, 1502, 1514, 32, 1500, 1489, 32, 1492, 1490,
        1493, 1507, 32, 1492, 1502, 1502, 1502, 1503>>,
      <<1500, 1514, 1513, 1493, 1502, 1514, 32, 1500, 1489, 32, 1492, 1490,
        1493, 1507, 32, 1492, 1502, 1502, 1502, 1503, 58>>,
      <<58, 1503, 1502, 1502, 1502, 1492, 32, 1507, 1493, 1490, 1492, 32,
        1489, 1500, 32, 1514, 1502, 1493, 1513, 1514, 1500>> }

\* page_num: int = 2, as called from main ("page 3")
TargetPage == 2

\* cap on the lines collected after the anchor
BlockCap == 12

\* "•"
Bullet == {8226}

\* the lines j = i+1 .. min(i+1+12, len(lines))-1 up to the first blank one
RECURSIVE CollectBlock(_, _, _)
CollectBlock(lines, j, last) ==
    IF j > last THEN <<>>
    ELSE LET nxt == normalize(lines[j])
         IN  IF nxt = <<>> THEN <<>>
             ELSE <<Strip(LStripChars(nxt, Bullet))>>
                    \o CollectBlock(lines, j + 1, last)

\* ok is FALSE when pdf.pages[page_num] raises IndexError
extract_target_paragraph(pages, page_index) ==
    IF page_index + 1 > Len(pages) THEN [ok |-> FALSE, text |-> <<>>]
    ELSE LET lines == SplitLines(pages[page_index + 1], <<>>)
             hits  == {i \in 1..Len(lines) :
                         \E a \in Anchors : Contains(normalize(lines[i]), a)}
         IN  IF hits = {} THEN [ok |-> TRUE, text |-> <<>>]
             ELSE LET i    == SetMin(hits)
                      last == IF i + BlockCap < Len(lines) THEN i + BlockCap
                              ELSE Len(lines)
                  IN  [ok |-> TRUE,
                       text |-> Join(CollectBlock(lines, i + 1, last), <<32>>)]

(***************************************************************************)
(* MAIN ETL FLOW: main of v1.1 and main of v0.3, run as two jobs on the    *)
(* same source object.                                                     *)
(***************************************************************************)
Versions == {"v03", "v11"}

\* --SOURCE_BUCKET "b"
SourceBucket == <<98>>

NoBody == [pages |-> <<>>, parsable |-> FALSE]

NoStructured == [fields |-> <<>>, llm |-> NoAdditions]

NoExit == -1

FreshJob ==
    [pc |-> "start", head_size |-> 0, etag |-> <<>>, body |-> NoBody,
     downloaded |-> FALSE, validated |-> FALSE, doc_id |-> <<>>,
     ingest_date |-> <<>>, structured |-> NoStructured,
     extraction_done |-> FALSE, enrichment_called |-> FALSE, exit |-> NoExit]

NoObject == [etag |-> <<>>, size |-> 0, body |-> NoBody]

IdleMain ==
    /\ source_key = <<>>
    /\ enable_bedrock = FALSE
    /\ s3_object = NoObject
    /\ uploads = 0
    /\ clock = 0
    /\ job = [j \in Versions |-> [FreshJob EXCEPT !.pc = "idle"]]
    /\ artifacts = {}

\* datetime.date.today().isoformat() on day `day` of November 2026
IsoFormat(day) ==
    <<50, 48, 50, 54, 45, 49, 49, 45, 48 + (day \div 10), 48 + (day % 10)>>

\* sys.exit(code), or the interpreter's exit 1 on an uncaught exception
Exit(j, code) == job' = [job EXCEPT ![j].pc = "exit", ![j].exit = code]

\* load_pdf_bytes, first half: head_object and the two checks
HeadObject(j) ==
    /\ job[j].pc = "start"
    /\ IF KeyIsPdf(source_key) /\ SizeIsPlausible(s3_object.size)
       THEN job' = [job EXCEPT ![j].pc = "head_ok",
                               ![j].head_size = s3_object.size,
                               ![j].etag = StripQuotes(s3_object.etag)]
       ELSE job' = [job EXCEPT ![j].pc = "exit", ![j].exit = 2,
                               ![j].head_size = s3_object.size]
    /\ UNCHANGED <<source_key, enable_bedrock, s3_object, uploads, clock, artifacts>>
    /\ UNCHANGED <<normVars, extractVars, enrichVars>>

\* load_pdf_bytes, second half: get_object and Body.read()
GetObject(j) ==
    /\ job[j].pc = "head_ok"
    /\ job' = [job EXCEPT ![j].pc = "loaded", ![j].body = s3_object.body,
                          ![j].downloaded = TRUE]
    /\ UNCHANGED <<source_key, enable_bedrock, s3_object, uploads, clock, artifacts>>
    /\ UNCHANGED <<normVars, extractVars, enrichVars>>

\* extract_text_sample and the two content checks; a file pdfplumber cannot
\* open ends v0.3 with exit 3 and v1.1 with an uncaught exception
SampleText(j) ==
    /\ job[j].pc = "loaded"
    /\ LET sample_text == extract_text_sample(job[j].body.pages)
       IN  IF ~job[j].body.parsable THEN Exit(j, IF j = "v03" THEN 3 ELSE 1)
           ELSE IF Strip(sample_text) = <<>> THEN Exit(j, 4)
           ELSE IF ~has_hebrew(sample_text) THEN Exit(j, 5)
           ELSE job' = [job EXCEPT ![j].pc = "validated", ![j].validated = TRUE]
    /\ UNCHANGED <<source_key, enable_bedrock, s3_object, uploads, clock, artifacts>>
    /\ UNCHANGED <<normVars, extractVars, enrichVars>>

\* doc_id, ingest_date and extract_metadata
Identify(j) ==
    /\ job[j].pc = "validated"
    /\ job' = [job EXCEPT
                 ![j].pc = "identified",
                 ![j].doc_id =
                    IF j = "v11"
                    THEN generate_doc_id(SourceBucket, source_key, job[j].etag)
                    ELSE doc_id_v03(SourceBucket, source_key, job[j].etag),
                 ![j].ingest_date = IsoFormat(clock)]
    /\ UNCHANGED <<source_key, enable_bedrock, s3_object, uploads, clock, artifacts>>
    /\ UNCHANGED <<normVars, extractVars, enrichVars>>

\* the object a job writes: put_object under
\* .../ingest_date...={ingest_date}/doc_id...={doc_id}/{name}
Artifact(j, name, data) ==
    [by |-> j, name |-> name, ingest_date |-> job[j].ingest_date,
     doc_id |-> job[j].doc_id, data |-> data]

\* put_object of one file, then on to the next step
Save(j, from, name, data, to) ==
    /\ job[j].pc = from
    /\ artifacts' = artifacts \cup {Artifact(j, name, data)}
    /\ job' = [job EXCEPT ![j].pc = to,
                          ![j].exit = IF to = "done" THEN 0 ELSE job[j].exit]
    /\ UNCHANGED <<source_key, enable_bedrock, s3_object, uploads, clock>>
    /\ UNCHANGED <<normVars, extractVars, enrichVars>>

\* v0.3: s3.put_object of metadata.json, then the summary
SaveMetadataV03 ==
    Save("v03", "identified", "metadata.json", NoStructured, "done")

\* v1.1: save_json_to_s3(metadata, ...)
SaveMetadataJson ==
    Save("v11", "identified", "metadata.json", NoStructured, "meta_json")

\* v1.1: save_parquet_to_s3(pd.DataFrame([metadata]), ...)
SaveMetadataParquet ==
    Save("v11", "meta_json", "metadata.parquet", NoStructured, "meta_parquet")

\* v1.1: structured = extract_structured_data(pdf_bytes)
ExtractStructured ==
    /\ job["v11"].pc = "meta_parquet"
    /\ job' = [job EXCEPT
                 !["v11"].pc = "structured",
                 !["v11"].extraction_done = TRUE,
                 !["v11"].structured =
                    [fields |-> extract_structured_data(job["v11"].body.pages),
                     llm |-> NoAdditions]]
    /\ UNCHANGED <<source_key, enable_bedrock, s3_object, uploads, clock, artifacts>>
    /\ UNCHANGED <<normVars, extractVars, enrichVars>>

\* the replies of the Titan call the jobs are run against
MainReplies ==
    { [shape |-> "raise", value |-> "none", obj |-> EmptyObject],
      [shape |-> "prose", value |-> "none", obj |-> EmptyObject],
      [shape |-> "json", value |-> "object",
       obj |-> [new_floors_count |-> JInt(0), new_residential_units |-> JInt(4),
                additions_list_he |-> JList(2),
                summary_he |-> JStr(<<1505, 1497, 1499, 1493, 1501>>)]] }

\* v1.1: "if enable_bedrock:" with the flag off
SkipEnrichment ==
    /\ job["v11"].pc = "structured"
    /\ ~enable_bedrock
    /\ job' = [job EXCEPT !["v11"].pc = "enriched"]
    /\ UNCHANGED <<source_key, enable_bedrock, s3_object, uploads, clock, artifacts>>
    /\ UNCHANGED <<normVars, extractVars, enrichVars>>

\* v1.1: context_paragraph = extract_target_paragraph(pdf_bytes, page_num=2)
\*       structured.update(get_llm_additions_titan(context_paragraph))
\* The IndexError of a document without a page 3 is caught nowhere;
\* Titan is called only on a paragraph that is not blank.
Enrich ==
    /\ job["v11"].pc = "structured"
    /\ enable_bedrock
    /\ LET para == extract_target_paragraph(job["v11"].body.pages, TargetPage)
       IN  IF ~para.ok THEN Exit("v11", 1)
           ELSE \E reply \in MainReplies :
                  job' = [job EXCEPT
                            !["v11"].pc = "enriched",
                            !["v11"].enrichment_called = (Strip(para.text) # <<>>),
                            !["v11"].structured.llm =
                                get_llm_additions_titan(para.text, reply)]
    /\ UNCHANGED <<source_key, enable_bedrock, s3_object, uploads, clock, artifacts>>
    /\ UNCHANGED <<normVars, extractVars, enrichVars>>

\* v1.1: save_json_to_s3(structured, ...)
SaveDataJson ==
    Save("v11", "enriched", "data.json", job["v11"].structured, "data_json")

\* v1.1: save_parquet_to_s3(pd.DataFrame([{**structured, ...}]), ...)
SaveDataParquet ==
    Save("v11", "data_json", "data.parquet", job["v11"].structured, "done")

(***************************************************************************)
(* Specification SpecEnrich: the Numeral Fallback Resolver and the         *)
(* enrichment call on context paragraphs built from a lead-in, an          *)
(* "addition of" word, a numeral, a floor word and a tail.                 *)
(***************************************************************************)

\* "", "בבניין ", "abc, "
ContextLeads ==
    {<<>>, <<1489, 1489, 1504, 1497, 1497, 1503, 32>>, <<97, 98, 99, 44, 32>>}

ContextAdds == {<<>>, Tosefet \o <<32>>}

TableWords == {e[1] : e \in HebrewNumberWords}

\* a word outside the table ("הרבה") and the digit groups "12", "0"
OtherNumerals == {<<1492, 1512, 1489, 1492>>, <<49, 50>>, <<48>>}

FloorWords == {Koma, Komot}

\* "", ' ו-2 יח"ד'
ContextTails == {<<>>, <<32, 1493, 45, 50, 32, 1497, 1495, 34, 1491>>}

\* " ו-12 יחידות דיור", " 7 יחד"
OtherTails ==
    {<<32, 1493, 45, 49, 50, 32, 1497, 1495, 1497, 1491, 1493, 1514, 32,
       1491, 1497, 1493, 1512>>,
     <<32, 55, 32, 1497, 1495, 1491>>}

\* lead-in, "addition of", numeral, space, floor word, tail
NumeralFirst(lead, add, num, floor, tail) ==
    lead \o add \o num \o <<32>> \o floor \o tail

\* lead-in, floor word, space, numeral   (as in 'קומה אחת')
FloorFirst(lead, num, floor) == lead \o floor \o <<32>> \o num

Contexts ==
    {NumeralFirst(lead, add, num, floor, tail) :
        lead \in ContextLeads, add \in ContextAdds,
        num \in TableWords \cup OtherNumerals,
        floor \in FloorWords, tail \in ContextTails}
    \cup {FloorFirst(lead, num, floor) :
        lead \in ContextLeads, num \in TableWords \cup OtherNumerals,
        floor \in FloorWords}
    \cup {Hosafat \o <<32>> \o num \o <<32>> \o Komot : num \in TableWords}
    \cup {num \o floor : num \in TableWords, floor \in FloorWords}
    \cup ContextTails \cup OtherTails
    \cup {<<51, 32>> \o Komot \o tail : tail \in OtherTails} \cup {<<32>>, <<1489, 1489, 1504, 1497, 1497, 1503>>}

JsonNumbers ==
    {JMissing, JNull, JInt(0), JInt(2), JStr(<<51>>),
     JStr(<<116, 104, 114, 101, 101>>), JFloatTenths(25), JList(1)}

JsonUnits == {JMissing, JInt(4)}

\* no summary, " סיכום ", the number 5
JsonSummaries ==
    {JMissing, JStr(<<32, 1505, 1497, 1499, 1493, 1501, 32>>), JInt(5)}

JsonAdditions == {JList(2)}

ReplyObjects ==
    [new_floors_count : JsonNumbers, new_residential_units : JsonUnits,
     additions_list_he : JsonAdditions, summary_he : JsonSummaries]

Replies ==
    {[shape |-> sh, value |-> "object", obj |-> o] :
        sh \in {"json", "wrapped"}, o \in ReplyObjects}
    \cup {[shape |-> sh, value |-> "none", obj |-> EmptyObject] :
        sh \in {"raise", "prose", "broken"}}
    \cup {[shape |-> "json", value |-> "list", obj |-> EmptyObject]}

NoReply == [shape |-> "none", value |-> "none", obj |-> EmptyObject]

NoFallback == [new_floors_count |-> 0, new_residential_units |-> 0]

IdleEnrich ==
    /\ t_context = <<>>
    /\ t_fallback = NoFallback
    /\ t_reply = NoReply
    /\ t_out = NoAdditions
    /\ t_pc = "idle"

InitEnrich ==
    /\ IdleMain
    /\ IdleNormalize
    /\ IdleExtract
    /\ t_context \in Contexts
    /\ t_fallback = NoFallback
    /\ t_reply = NoReply
    /\ t_out = NoAdditions
    /\ t_pc = "context"

\* _extract_numbers_fallback(context)
ExtractNumbersFallback ==
    /\ t_pc = "context"
    /\ t_fallback' = extract_numbers_fallback(t_context)
    /\ t_pc' = "resolved"
    /\ UNCHANGED <<t_context, t_reply, t_out>>
    /\ UNCHANGED <<normVars, extractVars, mainVars>>

\* get_llm_additions_titan(context): the Titan call answers with any reply
GetLlmAdditionsTitan ==
    /\ t_pc = "context"
    /\ \E reply \in Replies :
         /\ t_reply' = reply
         /\ t_out' = get_llm_additions_titan(t_context, reply)
    /\ t_pc' = "returned"
    /\ UNCHANGED <<t_context, t_fallback>>
    /\ UNCHANGED <<normVars, extractVars, mainVars>>

NextEnrich == ExtractNumbersFallback \/ GetLlmAdditionsTitan

SpecEnrich == InitEnrich /\ [][NextEnrich]_vars

(***************************************************************************)
(* Specification SpecNormalize: the Text Normalizer applied once and then  *)
(* again to its own output, on every short string over NormAlphabet.       *)
(***************************************************************************)
MaxRawLen == 4

NormAlphabet == {32, 160, 101, 769, 233, 8206, 1489, 1468, 1463}

RawStrings == UNION {[1..n -> NormAlphabet] : n \in 0..MaxRawLen}

NormFns == {"clean_text", "normalize"}

ApplyNorm(fn, s) == IF fn = "clean_text" THEN clean_text(s) ELSE normalize(s)

InitNormalize ==
    /\ IdleMain
    /\ IdleExtract
    /\ IdleEnrich
    /\ n_fn \in NormFns
    /\ n_in \in RawStrings
    /\ n_once = <<>>
    /\ n_twice = <<>>
    /\ n_pc = "raw"

NormalizeOnce ==
    /\ n_pc = "raw"
    /\ n_once' = ApplyNorm(n_fn, n_in)
    /\ n_pc' = "once"
    /\ UNCHANGED <<n_fn, n_in, n_twice>>
    /\ UNCHANGED <<extractVars, enrichVars, mainVars>>

NormalizeTwice ==
    /\ n_pc = "once"
    /\ n_twice' = ApplyNorm(n_fn, n_once)
    /\ n_pc' = "twice"
    /\ UNCHANGED <<n_fn, n_in, n_once>>
    /\ UNCHANGED <<extractVars, enrichVars, mainVars>>

NextNormalize == NormalizeOnce \/ NormalizeTwice

SpecNormalize == InitNormalize /\ [][NextNormalize]_vars

(***************************************************************************)
(* Specification SpecExtract: one extraction session per document.  The    *)
(* documents are built from label / separator / value / trailer parts, in  *)
(* natural and in character-reversed order.                                *)
(***************************************************************************)
MaxDocPages == 2

MaxPageLines == 2

AllLabels ==
    UNION {{field_patterns[i].labels[j] : j \in 1..Len(field_patterns[i].labels)} :
        i \in 1..Len(field_patterns)}

\* "12", "רחוב הרצל 5"
SampleValues ==
    {<<49, 50>>, <<1512, 1495, 1493, 1489, 32, 1492, 1512, 1510, 1500, 32, 53>>}

\* ": ", " ", ":", " - "
SampleSeps == {<<58, 32>>, <<32>>, <<58>>, <<32, 45, 32>>}

\* "", ".", " .", "..", ". ."
SampleTrailers == {<<>>, <<46>>, <<32, 46>>, <<46, 46>>, <<46, 32, 46>>}

\* label, separator, value, trailer
LabelFirstLines ==
    {lab \o sep \o val \o tr :
        lab \in AllLabels, sep \in SampleSeps,
        val \in SampleValues, tr \in SampleTrailers}

\* value, separator, label
ValueFirstLines ==
    {val \o sep \o lab :
        lab \in AllLabels, sep \in SampleSeps, val \in SampleValues}

\* a labelled line that also holds the label mirrored, so that the
\* pattern matches the line and its mirror
BothWaysLines ==
    {lab \o sep \o val \o <<32>> \o Reverse(lab) :
        lab \in AllLabels, sep \in SampleSeps, val \in SampleValues}

\* a label with nothing, or only separators and periods, around it
BareLabelLines ==
    UNION {{lab, lab \o <<58>>, lab \o <<58, 32, 46>>, lab \o <<32, 46, 46>>,
            lab \o <<58, 32, 46, 32, 53>>, <<46, 32>> \o lab} :
        lab \in AllLabels}

\* "שטח רשום שטח 120", "שטח רשום: 120 רשום שטח": both labels of
\* registered_area match the line
TwoLabelLines ==
    { <<1513, 1496, 1495, 32, 1512, 1513, 1493, 1501, 32, 1513, 1496, 1495,
        32, 49, 50, 48>>,
      <<1513, 1496, 1495, 32, 1512, 1513, 1493, 1501, 58, 32, 49, 50, 48, 32,
        1512, 1513, 1493, 1501, 32, 1513, 1496, 1495>> }

NaturalLines ==
    LabelFirstLines \cup ValueFirstLines \cup BothWaysLines
        \cup BareLabelLines \cup TwoLabelLines \cup {<<>>, <<97, 98, 99>>}

\* every line as typed, reversed end to end, and with a RIGHT-TO-LEFT MARK
\* in front and a space behind
SampleLines ==
    NaturalLines \cup {Reverse(l) : l \in NaturalLines}
        \cup {<<8207>> \o l \o <<32>> : l \in LabelFirstLines}

\* lines of the multi-line documents:
\*   "גוש: 100", "חלקה: 25", "חלקה: 30", the reversal of "חלקה: 25",
\*   "שטח רשום: 120 רשום שטח", "גוש: .", "", the reversal of
\*   "כתובת: רחוב הרצל 5"
ShortLines ==
    { <<1490, 1493, 1513, 58, 32, 49, 48, 48>>,
      <<1495, 1500, 1511, 1492, 58, 32, 50, 53>>,
      <<1495, 1500, 1511, 1492, 58, 32, 51, 48>>,
      Reverse(<<1495, 1500, 1511, 1492, 58, 32, 50, 53>>),
      <<1513, 1496, 1495, 32, 1512, 1513, 1493, 1501, 58, 32, 49, 50, 48, 32,
        1512, 1513, 1493, 1501, 32, 1513, 1496, 1495>>,
      <<1490, 1493, 1513, 58, 32, 46>>,
      <<>>,
      Reverse(<<1499, 1514, 1493, 1489, 1514, 58, 32,
                1512, 1495, 1493, 1489, 32, 1492, 1512, 1510, 1500, 32, 53>>) }

\* the text of a page holding the given lines
PageText(lines) == Join(lines, <<10>>)

OneLineDocs == {<<l>> : l \in SampleLines}

ShortPages ==
    {PageText(ls) : ls \in UNION {[1..n -> ShortLines] : n \in 1..MaxPageLines}}

ShortDocs == UNION {[1..n -> ShortPages] : n \in 1..MaxDocPages}

\* documents with more pages than max_pages: "" or "כתובת: 12" on each
LongDocs ==
    [1..(max_pages + 1) ->
        {<<>>, <<1499, 1514, 1493, 1489, 1514, 58, 32, 49, 50>>}]

Documents == OneLineDocs \cup ShortDocs \cup LongDocs

InitExtract ==
    /\ IdleMain
    /\ IdleNormalize
    /\ IdleEnrich
    /\ pdf_pages \in Documents
    /\ page_num = 1
    /\ line_no = 1
    /\ key_i = 1
    /\ label_i = 1
    /\ extracted = <<>>
    /\ seen_keys = {}
    /\ e_pc = "scan"

NextExtract == SkipSeenKey \/ ScanLabel

SpecExtract == InitExtract /\ [][NextExtract]_vars

(***************************************************************************)
(* Specification SpecMain: the two jobs run, interleaved, on one source    *)
(* key.  The object under the key is one of a series of uploads and may be *)
(* replaced by the next while the jobs run; the date may change meanwhile. *)
(***************************************************************************)
MaxClock == 2

MaxUploads == 1

\* "a.pdf", "A.PDF", "a.txt"
SourceKeys ==
    { <<97, 46, 112, 100, 102>>, <<65, 46, 80, 68, 70>>,
      <<97, 46, 116, 120, 116>> }

\* "גוש: 12"
GushLine == <<1490, 1493, 1513, 58, 32, 49, 50>>

\* "חלקה: 7"
HelkaLine == <<1495, 1500, 1511, 1492, 58, 32, 55>>

\* "לתשומת לב הגוף המממן:"
AnchorLine == <<1500, 1514, 1513, 1493, 1502, 1514, 32, 1500, 1489, 32, 1492, 1490, 1493, 1507, 32, 1492, 1502, 1502, 1502, 1503, 58>>

\* "• תוספת שלוש קומות ו-2 יח"ד"
AdditionsLine == <<8226, 32, 1514, 1493, 1505, 1508, 1514, 32, 1513, 1500, 1493, 1513, 32, 1511, 1493, 1502, 1493, 1514, 32, 1493, 45, 50, 32, 1497, 1495, 34, 1491>>

\* "שלום"
OtherLine == <<1513, 1500, 1493, 1501>>

\* three pages, the anchor and its paragraph on the third
DocFull ==
    [pages |-> <<GushLine, HelkaLine,
                 Join(<<OtherLine, AnchorLine, AdditionsLine, <<>>, OtherLine>>,
                      <<10>>)>>,
     parsable |-> TRUE]

\* three pages, no anchor on the third
DocNoAnchor ==
    [pages |-> <<GushLine, <<>>, OtherLine>>, parsable |-> TRUE]

\* two pages: there is no page 3
DocTwoPages == [pages |-> <<GushLine, HelkaLine>>, parsable |-> TRUE]

\* a scanned page: no extractable text
DocBlank == [pages |-> <<<<32>>>>, parsable |-> TRUE]

\* "block 12": text without a Hebrew character
DocLatin ==
    [pages |-> <<<<98, 108, 111, 99, 107, 32, 49, 50>>>>, parsable |-> TRUE]

\* bytes pdfplumber cannot open
DocBroken == [pages |-> <<>>, parsable |-> FALSE]

\* '"e<k>"': the ETag header of upload k, with its quotes
ETagOf(k) == <<34, 101, 48 + k, 34>>

\* the successive uploads under the key: upload k carries ETag "e<k>"
Uploads ==
    << [etag |-> ETagOf(1), size |-> 4096, body |-> DocFull],
       [etag |-> ETagOf(2), size |-> 1024, body |-> DocNoAnchor],
       [etag |-> ETagOf(3), size |-> 2048, body |-> DocTwoPages],
       [etag |-> ETagOf(4), size |-> 2048, body |-> DocBlank],
       [etag |-> ETagOf(5), size |-> 2048, body |-> DocBroken],
       [etag |-> ETagOf(6), size |-> 1023, body |-> DocFull],
       [etag |-> ETagOf(7), size |-> 2048, body |-> DocLatin] >>

Objects == {Uploads[k] : k \in 1..Len(Uploads)}

\* the upload that follows object o (after the last comes the first again)
UploadAfter(o) ==
    LET k == CHOOSE i \in 1..Len(Uploads) : Uploads[i] = o
    IN  Uploads[(k % Len(Uploads)) + 1]

InitMain ==
    /\ IdleNormalize
    /\ IdleExtract
    /\ IdleEnrich
    /\ source_key \in SourceKeys
    /\ enable_bedrock \in BOOLEAN
    /\ s3_object \in Objects
    /\ uploads = 0
    /\ clock = 1
    /\ job = [j \in Versions |-> FreshJob]
    /\ artifacts = {}

\* midnight passes while a job has yet to read the date
Tick ==
    /\ clock < MaxClock
    /\ \E j \in Versions :
          job[j].pc \in {"start", "head_ok", "loaded", "validated"}
    /\ clock' = clock + 1
    /\ UNCHANGED <<source_key, enable_bedrock, s3_object, uploads, job, artifacts>>
    /\ UNCHANGED <<normVars, extractVars, enrichVars>>

\* the next object is uploaded under the same key while a job has yet to
\* read it
Reupload ==
    /\ uploads < MaxUploads
    /\ \E j \in Versions : job[j].pc \in {"start", "head_ok"}
    /\ uploads' = uploads + 1
    /\ s3_object' = UploadAfter(s3_object)
    /\ UNCHANGED <<source_key, enable_bedrock, clock, job, artifacts>>
    /\ UNCHANGED <<normVars, extractVars, enrichVars>>

NextMain ==
    \/ \E j \in Versions : HeadObject(j)
    \/ \E j \in Versions : GetObject(j)
    \/ \E j \in Versions : SampleText(j)
    \/ \E j \in Versions : Identify(j)
    \/ SaveMetadataV03
    \/ SaveMetadataJson
    \/ SaveMetadataParquet
    \/ ExtractStructured
    \/ SkipEnrichment
    \/ Enrich
    \/ SaveDataJson
    \/ SaveDataParquet
    \/ Tick
    \/ Reupload

SpecMain == InitMain /\ [][NextMain]_vars

(***************************************************************************)
(* Claims about the extraction session (checked under SpecExtract).        *)
(***************************************************************************)

\* the document is one page holding one line
OneLineDocument ==
    Len(pdf_pages) = 1 /\ Len(PageLines(pdf_pages, 1)) = 1

TheLine == clean_text(PageLines(pdf_pages, 1)[1])

\* C1: a line that is the character reversal of "label: value", whose label
\* matches only in the mirrored line, yields for that key the value in its
\* correct reading order, that is exactly the original value text.
C1_MirroredValueRestored ==
    \A i \in 1..Len(field_patterns) :
      \A j \in 1..Len(field_patterns[i].labels) :
        \A val \in SampleValues :
          LET lab   == field_patterns[i].labels[j]
              typed == lab \o <<58, 32>> \o val
          IN  ( /\ e_pc = "done"
                /\ pdf_pages = <<Reverse(typed)>>
                /\ ~re_search("fwd_pat", lab, Reverse(typed)).ok
                /\ re_search("fwd_pat", lab, typed).ok )
              => /\ field_patterns[i].key \in DOMAIN extracted
                 /\ extracted[field_patterns[i].key] = val

\* C2: first match wins: once a field key has been given a value, no later
\* match (later page, later line, later label of the same key) changes it.
C2_FirstMatchWins ==
    [][\A k \in DOMAIN extracted :
          k \in DOMAIN extracted' /\ extracted'[k] = extracted[k]]_vars

\* the first of (fwd_pat, rev_pat) that matches the line or its mirror
FirstPattern(lab, line) ==
    IF \/ re_search("fwd_pat", lab, line).ok
       \/ re_search("fwd_pat", lab, flip_line(line)).ok
    THEN "fwd_pat" ELSE "rev_pat"

\* C3: when a label's pattern matches both the natural line and its mirror,
\* the natural-line match takes precedence: the value reported is the text
\* captured from the natural line, in the natural line's character order.
C3_NaturalMatchTakesPrecedence ==
    (e_pc = "done" /\ OneLineDocument) =>
      \A i \in 1..Len(field_patterns) :
        LET lab == field_patterns[i].labels[1]
            pat == FirstPattern(lab, TheLine)
        IN  ( /\ Len(field_patterns[i].labels) = 1
              /\ re_search(pat, lab, TheLine).ok
              /\ re_search(pat, lab, flip_line(TheLine)).ok )
            => /\ field_patterns[i].key \in DOMAIN extracted
               /\ extracted[field_patterns[i].key] =
                    CleanValue(re_search(pat, lab, TheLine).g)

\* C10: no recorded value begins or ends with a white-space character and
\* none ends with a period.
C10_ValuesAreClean ==
    \A k \in DOMAIN extracted :
      LET v == extracted[k]
      IN  v # <<>> =>
            /\ v[1] \notin WhiteSpace
            /\ v[Len(v)] \notin WhiteSpace
            /\ v[Len(v)] # 46

\* C11: a key is marked resolved only with a value that is not empty: a
\* line holding a label followed only by periods, white space or a separator
\* never resolves the key with the empty string, which would keep a real
\* value on a later line or page from being recorded.
C11_ResolvedOnlyWithValue ==
    \A k \in seen_keys : k \in DOMAIN extracted /\ extracted[k] # <<>>

(***************************************************************************)
(* Claims about the enrichment call and the Numeral Fallback Resolver      *)
(* (checked under SpecEnrich).                                             *)
(***************************************************************************)

\* a numeric key that is missing, null, text that is no number, or a list
MissingOrMalformed(v) ==
    \/ v.t \in {"missing", "null", "list"}
    \/ v.t = "str" /\ RunLen(Strip(v.s), 1, Digits) # Len(Strip(v.s))

\* what a defaulted key ends as: the fallback's value when that is not 0
DefaultedTo(fallbackValue) == IF fallbackValue # 0 THEN fallbackValue ELSE 0

\* C5: when the reply parses to an object, a numeric key that is missing or
\* malformed is defaulted to 0 (then replaced by the fallback's non-zero
\* value) and the enrichment result is still returned with its other fields.
C5_MalformedNumberDefaultsToZero ==
    ( /\ t_pc = "returned"
      /\ Strip(t_context) # <<>>
      /\ t_reply.shape \in {"json", "wrapped"}
      /\ t_reply.value = "object"
      /\ SummaryOf(t_reply.obj.summary_he).ok )
    => LET obj == t_reply.obj
           fb  == extract_numbers_fallback(t_context)
       IN  /\ MissingOrMalformed(obj.new_floors_count) =>
                /\ t_out.returned = "out"
                /\ t_out.llm_additions.new_floors_count =
                      DefaultedTo(fb.new_floors_count)
                /\ t_out.llm_additions.summary_he = SummaryOf(obj.summary_he).s
                /\ t_out.llm_additions.additions_list_he = obj.additions_list_he
           /\ MissingOrMalformed(obj.new_residential_units) =>
                /\ t_out.returned = "out"
                /\ t_out.llm_additions.new_residential_units =
                      DefaultedTo(fb.new_residential_units)
                /\ t_out.llm_additions.summary_he = SummaryOf(obj.summary_he).s
                /\ t_out.llm_additions.additions_list_he = obj.additions_list_he

\* 'תוספת שלוש קומות ו-2 יח"ד'
NumeralExample ==
    <<1514, 1493, 1505, 1508, 1514, 32, 1513, 1500, 1493, 1513, 32,
      1511, 1493, 1502, 1493, 1514, 32, 1493, 45, 50, 32, 1497, 1495, 34, 1491>>

\* C6: when no digit group stands before a floor word and a cardinal-number
\* word of the table stands next to the floor word, the floor count is that
\* word's integer, whatever text surrounds it; the example gives 3 and 2;
\* a quantity with no match is 0.
C6_WordNumeralResolved ==
    t_pc = "resolved" =>
      /\ \A lead \in ContextLeads, add \in ContextAdds, e \in HebrewNumberWords,
            floor \in FloorWords, tail \in ContextTails :
           ( /\ t_context = NumeralFirst(lead, add, e[1], floor, tail)
             /\ \A i \in 1..Len(e[1]) : e[1][i] \in HebrewLetterOrSpace )
             => t_fallback.new_floors_count = e[2]
      /\ t_context = NumeralExample =>
           /\ t_fallback.new_floors_count = 3
           /\ t_fallback.new_residential_units = 2
      /\ t_context \in {<<>>, <<32>>} =>
           /\ t_fallback.new_floors_count = 0
           /\ t_fallback.new_residential_units = 0

\* C8: normalize(normalize(x)) = normalize(x) for every string x.
C8_NormalizeIdempotent == n_pc = "twice" => n_twice = n_once

(***************************************************************************)
(* Claims about the two jobs (checked under SpecMain).                     *)
(***************************************************************************)
ArtifactsOf(j) == {a \in artifacts : a.by = j}

\* nothing was extracted, asked of Titan or written by job j
NothingDone(j) ==
    /\ ~job[j].extraction_done
    /\ ~job[j].enrichment_called
    /\ ArtifactsOf(j) = {}

\* job j has sampled the body it downloaded
Sampled(j) == job[j].downloaded /\ job[j].pc # "loaded" /\ job[j].body.parsable

\* C4: with enrichment enabled, no failure of the enrichment step (no page
\* 3, no anchor paragraph, Titan raising, a malformed reply) aborts a run
\* whose document passed validation: the run does not end in an error, and
\* when it ends data.json and data.parquet hold the label-anchored fields.
C4_EnrichmentFailureDoesNotAbort ==
    (enable_bedrock /\ job["v11"].validated) =>
        /\ job["v11"].pc # "exit"
        /\ job["v11"].pc = "done" =>
              \A name \in {"data.json", "data.parquet"} :
                 \E a \in ArtifactsOf("v11") :
                    /\ a.name = name
                    /\ a.data.fields =
                          extract_structured_data(job["v11"].body.pages)

\* C7, as the code has it: a source key that does not end with ".pdf" when
\* compared without regard to case, or an object whose reported size is
\* below 1024 bytes, ends the run with exit 2 before the body is downloaded;
\* an empty text sample ends it with exit 4 and a sample without a Hebrew
\* character with exit 5; a rejected run extracts no field, calls no
\* enrichment and writes no artifact, and no artifact is written nor field
\* extracted by a run that has not passed validation.
C7_RejectionIsFatalAndEarly ==
    /\ \A j \in Versions :
          (/\ job[j].pc # "start"
           /\ \/ ~EndsWith(Lower(source_key), DotPdf)
              \/ job[j].head_size < 1024)
          => job[j].exit = 2 /\ ~job[j].downloaded /\ NothingDone(j)
    /\ \A j \in Versions :
          (Sampled(j) /\ Strip(extract_text_sample(job[j].body.pages)) = <<>>)
          => job[j].exit = 4 /\ NothingDone(j)
    /\ \A j \in Versions :
          (/\ Sampled(j)
           /\ Strip(extract_text_sample(job[j].body.pages)) # <<>>
           /\ \A i \in 1..Len(extract_text_sample(job[j].body.pages)) :
                 extract_text_sample(job[j].body.pages)[i] \notin 1424..1535)
          => job[j].exit = 5 /\ NothingDone(j)
    /\ \A j \in Versions : ~job[j].validated => NothingDone(j)

\* C7 witness: one job was turned away for the size of the object and the
\* other, after a new upload, for a text without Hebrew; nothing was written.
C7_BothRejected ==
    /\ job["v03"].exit = 2
    /\ job["v03"].head_size < 1024
    /\ job["v11"].exit = 5
    /\ artifacts = {}

\* C7 as stated: a source key that does not end with the characters ".pdf"
\* ends the run with exit 2 and without a download.
C7_LiteralSuffixRejected ==
    \A j \in Versions :
       (job[j].pc # "start" /\ ~EndsWith(source_key, DotPdf))
       => job[j].exit = 2 /\ ~job[j].downloaded

IsHex16(id) ==
    Len(id) = 16 /\ \A i \in 1..Len(id) : id[i] \in (48..57) \cup (97..102)

Identified(j) == job[j].doc_id # <<>>

\* C9: a document identity is 16 lowercase hexadecimal characters; the two
\* jobs derive the same identity from the same (bucket, key, etag) and
\* different identities from etags that differ; every artifact of a run is
\* stored under the run's one (ingest_date, identity) partition.
C9_IdentityDeterministic ==
    /\ \A j \in Versions : Identified(j) => IsHex16(job[j].doc_id)
    /\ (Identified("v03") /\ Identified("v11")) =>
          (job["v03"].etag = job["v11"].etag
             <=> job["v03"].doc_id = job["v11"].doc_id)
    /\ \A a \in artifacts :
          /\ Identified(a.by)
          /\ a.doc_id = job[a.by].doc_id
          /\ a.ingest_date = job[a.by].ingest_date
    /\ \A a, b \in artifacts :
          a.by = b.by => a.doc_id = b.doc_id /\ a.ingest_date = b.ingest_date

\* C9 witness: both jobs have finished, on different uploads and on
\* different days, and v1.1 has written all four of its artifacts.
C9_BothJobsFinished ==
    /\ job["v03"].pc = "done"
    /\ job["v11"].pc = "done"
    /\ job["v03"].etag # job["v11"].etag
    /\ job["v03"].ingest_date # job["v11"].ingest_date
    /\ Cardinality(ArtifactsOf("v11")) = 4

====
